---------------------------- MODULE Spec2Model ----------------------------
(***************************************************************************)
(* Model of the Unsplash API client (src/src/unsplashClient.ts, the        *)
(* retrying UnsplashClient of lines 1-238), of the attribution ledger      *)
(* (AttributionManager, src/src/config.ts) and of the download loop of the *)
(* stock_photo tool (src/src/server.ts).                                   *)
(*                                                                         *)
(* Spec: one call of a public method on a newly constructed client (the    *)
(* fields an earlier call has written are only read back by                *)
(* getRateLimitStatus; no retry loop depends on them).  Every await of the *)
(* code is a value of pc; an action is the code that runs from the         *)
(* completion of one await to the next one.  The upstream (status,         *)
(* headers, body, network failures) and the file system are the            *)
(* environment: their answers are drawn with \E from small sets.  Time is  *)
(* in milliseconds.                                                        *)
(*                                                                         *)
(* LedgerSpec: the operations of the ledger on a directory whose file is   *)
(* in any state, and a second instance constructed on the same directory.  *)
(*                                                                         *)
(* WritersSpec: two ledger instances on one directory, both adding.        *)
(*                                                                         *)
(* ServerSpec: one call of stock_photo's execute: directory setup, the     *)
(* search, and by downloadMode the return of the URLs or the download loop *)
(* running downloadPhoto, addAttribution and the metadata step for each    *)
(* selected photo.                                                         *)
(*                                                                         *)
(* ConcurrentSpec: the download loops of two calls of execute in flight on *)
(* the shared ledger.                                                      *)
(***************************************************************************)
EXTENDS Integers, Sequences, FiniteSets, TLC

VARIABLES
  pc,                  \* the await the current call is suspended at
  op,                  \* the public method being executed ("none" when idle)
  now,                 \* the clock (Date.now()), in ms
  rateLimitRemaining,  \* UnsplashClient.rateLimitRemaining
  rateLimitResetTime,  \* UnsplashClient.rateLimitResetTime
  request,             \* frame of request(): attempt, lastError, wakeAt
  download,            \* frame of downloadPhoto(): attempt, lastError, tracked, wakeAt
  fileStream,          \* the fs.WriteStream of the current download attempt
  outcome,             \* how the call settled: returned value / thrown value
  reqLog,              \* what a test double of fetch saw of the request() loop
  dlLog,               \* what a test double of fetch saw of the image loop
  lastResponse,        \* the most recent response request() received
  disk,                \* the content of unsplash-attributions.json
  db,                  \* AttributionManager.db of each ledger instance
  ledgerOut,           \* how the last ledger operation settled
  ledgerLog,           \* what a caller of the ledger has observed
  srv                  \* frame of stock_photo's execute (of each call in flight)

clientVars == <<pc, op, now, rateLimitRemaining, rateLimitResetTime,
                request, download, fileStream, outcome, reqLog, dlLog,
                lastResponse>>

ledgerVars == <<disk, db, ledgerOut, ledgerLog>>

serverVars == <<srv>>

vars == <<clientVars, ledgerVars, serverVars>>

---------------------------------------------------------------------------
(* Program constants                                                       *)

\* A loop with one retry less (for C3).
MAX_RETRIES_OneLess == 3 - 1

MAX_RETRIES == 3

RETRY_DELAYS == <<1000, 2000, 4000>>

DEFAULT_RATE_LIMIT_WAIT == 60000

RATE_LIMIT_WINDOW == 3600000

INITIAL_RATE_LIMIT_REMAINING == 50

(* Bounds of the model                                                     *)

MaxChunks == 1

---------------------------------------------------------------------------
(* Values                                                                  *)

NaN == 0 - 1

\* A header value is the sequence of its characters; <<>> stands for a header
\* that is absent (null) or empty: both are falsy in the code's tests.
NoHeader == <<>>

Digits == <<"0", "1", "2", "3", "4", "5", "6", "7", "8", "9">>

IsDigit(c) == \E i \in 1..Len(Digits) : Digits[i] = c

DigitVal(c) == (CHOOSE i \in 1..Len(Digits) : Digits[i] = c) - 1

RECURSIVE ParseDigits(_, _)
ParseDigits(s, acc) ==
  IF s = <<>> \/ ~IsDigit(Head(s)) THEN acc
  ELSE ParseDigits(Tail(s), acc * 10 + DigitVal(Head(s)))

\* parseInt(s, 10): the value of the leading decimal digits, NaN if there is none.
ParseInt(s) ==
  IF s = <<>> \/ ~IsDigit(Head(s)) THEN NaN ELSE ParseDigits(s, 0)

\* x * 1000 in IEEE arithmetic: NaN stays NaN.
TimesThousand(x) == IF x = NaN THEN NaN ELSE x * 1000

NullError == [type |-> "null", status |-> 0, code |-> "none"]

ApiError(status) == [type |-> "UnsplashApiError", status |-> status, code |-> "none"]

InvalidDataError == [type |-> "InvalidData", status |-> 0, code |-> "none"]

NetworkError(code) == [type |-> "Network", status |-> 0, code |-> code]

DownloadError(status) == [type |-> "DownloadFailed", status |-> status, code |-> "none"]

WriteError == [type |-> "Write", status |-> 0, code |-> "EIO"]

JsonSyntaxError == [type |-> "JsonSyntax", status |-> 0, code |-> "none"]

BodyReadError == [type |-> "BodyRead", status |-> 0, code |-> "none"]

EnsureDirError == [type |-> "EnsureDir", status |-> 0, code |-> "EACCES"]

NoOutcome == [kind |-> "none", value |-> "none", error |-> NullError]

Returned(v) == [kind |-> "returned", value |-> v, error |-> NullError]

Threw(e) == [kind |-> "threw", value |-> "none", error |-> e]

RequestOps == {"searchPhotos", "getPhotoById", "trackDownload"}

IdleRequest == [attempt |-> 0, lastError |-> NullError, wakeAt |-> 0]

IdleDownload == [attempt |-> 0, lastError |-> NullError, tracked |-> "none", wakeAt |-> 0]

NoFile == [state |-> "none", written |-> 0, total |-> 0]

\* The log of the fetches of one request() call: their number; whether every
\* answer so far was a 5xx, was a 429; whether some answer was a client error
\* (not ok, not 429, not 5xx), an ok response with an invalid body; the last
\* answer (status, Retry-After, whether it was an ok response without content,
\* time); the time the last fetch was issued; how
\* request() ended ("returned", "threw").
EmptyReqLog ==
  [fetches |-> 0, allServer |-> TRUE, all429 |-> TRUE, sawClient |-> FALSE,
   sawInvalid |-> FALSE, prevStatus |-> 0, prevRetryAfter |-> NoHeader,
   prevNoContent |-> FALSE, prevAt |-> 0, issuedAt |-> 0, ended |-> "no"]

\* The log of one downloadPhoto() call: the image fetches (their number, whether
\* every answer was a 5xx, whether some answer was a client error, the sleeps of
\* the image loop) and the fetches of the tracking request before them.
EmptyDlLog ==
  [fetches |-> 0, allServer |-> TRUE, sawClient |-> FALSE, sleeps |-> 0,
   trackFetches |-> 0, trackAllServer |-> TRUE]

\* The responses request() has received: whether there was one, the
\* X-Ratelimit-Remaining header and the time of the most recent one, and the
\* header of the most recent response that carried one.
NoResponse ==
  [received |-> FALSE, remaining |-> NoHeader, at |-> 0, carried |-> NoHeader]

Received(last, header, t) ==
  [received |-> TRUE, remaining |-> header, at |-> t,
   carried |-> IF header # NoHeader THEN header ELSE last.carried]

---------------------------------------------------------------------------
(* JSON values and the zod schemas of the responses                        *)
(*                                                                         *)
(* A JSON member is a tagged value: a number is kept as twice its value    *)
(* (so 3 stands for 1.5), a string is either some text or a well-formed    *)
(* URL, a member the object does not have is undefined.                    *)

Undefined == [type |-> "undefined", twice |-> 0]

Text == [type |-> "string", twice |-> 0]

Url == [type |-> "url", twice |-> 0]

Num(twice) == [type |-> "number", twice |-> twice]

NoArray == [type |-> "undefined", items |-> <<>>]

Array(items) == [type |-> "array", items |-> items]

\* A photo object: id, width, height, and whether its other members
\* (description, alt_description, urls, links, user) conform to the schema.
PhotoObject(id, width, height, rest) ==
  [id |-> id, width |-> width, height |-> height, rest |-> rest]

\* An object of a response body: the members the three schemas look at.
Object(photo, total, total_pages, results, url) ==
  [id |-> photo.id, width |-> photo.width, height |-> photo.height,
   rest |-> photo.rest, total |-> total, total_pages |-> total_pages,
   results |-> results, url |-> url]

NoPhoto == PhotoObject(Undefined, Undefined, Undefined, FALSE)

GoodPhoto == PhotoObject(Text, Num(8), Num(6), TRUE)

PhotoBody(photo) == Object(photo, Undefined, Undefined, NoArray, Undefined)

SearchBody(total, results) == Object(NoPhoto, total, total, results, Undefined)

\* z.string()
IsString(j) == j.type \in {"string", "url"}

\* z.string().url()
IsUrl(j) == j.type = "url"

\* z.number().int()
IsInt(j) == j.type = "number" /\ j.twice % 2 = 0

PhotoSchema(o) ==
  /\ IsString(o.id)
  /\ IsInt(o.width)
  /\ IsInt(o.height)
  /\ o.rest

SearchResultsSchema(o) ==
  /\ IsInt(o.total)
  /\ IsInt(o.total_pages)
  /\ o.results.type = "array"
  /\ \A i \in 1..Len(o.results.items) : PhotoSchema(o.results.items[i])

DownloadTrackingSchema(o) == IsUrl(o.url)

\* The bodies a response can carry, by name; "notJson" is a body that
\* response.json() cannot parse.
BodyNames ==
  {"photo", "photoZero", "photoNegativeWidth", "photoNegativeHeight",
   "photoFractionalWidth", "photoWithoutId",
   "search0", "search1", "searchNegativeWidth", "searchWithoutTotal",
   "tracking", "trackingBadUrl", "emptyObject", "emptyUrl", "notJson"}

\* JSON.parse of a body; {} and {url: ''} are also what request() returns
\* for a response without content.
Json(name) ==
  CASE name = "photo" -> PhotoBody(GoodPhoto)
    [] name = "photoZero" -> PhotoBody(PhotoObject(Text, Num(0), Num(0), TRUE))
    [] name = "photoNegativeWidth" ->
         PhotoBody(PhotoObject(Text, Num(0 - 2), Num(6), TRUE))
    [] name = "photoNegativeHeight" ->
         PhotoBody(PhotoObject(Text, Num(8), Num(0 - 2), TRUE))
    [] name = "photoFractionalWidth" ->
         PhotoBody(PhotoObject(Text, Num(3), Num(6), TRUE))
    [] name = "photoWithoutId" ->
         PhotoBody(PhotoObject(Undefined, Num(8), Num(6), TRUE))
    [] name = "search0" -> SearchBody(Num(0), Array(<<>>))
    [] name = "search1" -> SearchBody(Num(2), Array(<<GoodPhoto>>))
    [] name = "searchNegativeWidth" ->
         SearchBody(Num(4), Array(<<GoodPhoto,
                                    PhotoObject(Text, Num(0 - 2), Num(6), TRUE)>>))
    [] name = "searchWithoutTotal" -> SearchBody(Undefined, Array(<<GoodPhoto>>))
    [] name = "search3" ->
         SearchBody(Num(6), Array(<<GoodPhoto, GoodPhoto, GoodPhoto>>))
    [] name = "tracking" -> Object(NoPhoto, Undefined, Undefined, NoArray, Url)
    [] name = "trackingBadUrl" ->
         Object(NoPhoto, Undefined, Undefined, NoArray, Text)
    [] name = "emptyUrl" -> Object(NoPhoto, Undefined, Undefined, NoArray, Text)
    [] OTHER -> Object(NoPhoto, Undefined, Undefined, NoArray, Undefined)

\* schema.safeParse(data).success for the schema the operation passes to
\* request().
SafeParse(o, data) ==
  IF o = "searchPhotos" THEN SearchResultsSchema(data)
  ELSE IF o = "getPhotoById" THEN PhotoSchema(data)
  ELSE DownloadTrackingSchema(data)

---------------------------------------------------------------------------
(* The environment's answers                                               *)

Statuses == {200, 204, 401, 404, 429, 500, 503}

RemainingHeaders == {NoHeader, <<"4", "9">>}

RetryAfterHeaders == {NoHeader, <<"0">>, <<"2">>}

NetworkCodes == {"ECONNRESET", "ENOTFOUND"}

IsOk(status) == status >= 200 /\ status <= 299

\* The responses fetch() can resolve with.  Fields the code does not read for a
\* status are fixed: Retry-After is read on 429 only, content-length and the body
\* on an ok response only.
HttpResponses ==
  { r \in [status : Statuses, remaining : RemainingHeaders,
           retryAfter : RetryAfterHeaders, contentLength0 : BOOLEAN,
           body : BodyNames] :
      /\ (r.status # 429 => r.retryAfter = NoHeader)
      /\ (~IsOk(r.status) \/ r.status = 204 => ~r.contentLength0)
      /\ (~IsOk(r.status) \/ r.status = 204 \/ r.contentLength0
            => r.body = "emptyObject") }

---------------------------------------------------------------------------
(* sleep(ms): setTimeout fires no earlier than ms later; a delay that is    *)
(* NaN or below 1 is a delay of 1.                                          *)

SleepDuration(ms) == IF ms = NaN \/ ms < 1 THEN 1 ELSE ms

(* updateRateLimitFromHeaders                                               *)

\* The assignment without its test of the header (for C11).
UpdatedRemainingUnguarded(old, header) == ParseInt(header)

UpdatedRemaining(old, header) == IF header # NoHeader THEN ParseInt(header) ELSE old

UpdatedResetTime(t) == t + RATE_LIMIT_WINDOW

---------------------------------------------------------------------------
(* request(): one iteration of the retry loop, from the settling of fetch   *)
(* to the next await, the return or the throw.  The result names how the    *)
(* iteration ends:                                                          *)
(*   "sleep"     await sleep(delay), then continue                          *)
(*   "continue"  the end of the catch block is reached: next iteration      *)
(*   "break"     the loop is left, throw lastError follows                  *)
(*   "return"    return value                                               *)

Step(next, lastError, delay, value) ==
  [next |-> next, lastError |-> lastError, delay |-> delay, value |-> value]

\* WaitMs with the header's seconds taken as milliseconds (for C5).
WaitMsUnscaled(retryAfter) ==
  IF retryAfter # NoHeader THEN ParseInt(retryAfter) ELSE DEFAULT_RATE_LIMIT_WAIT

\* const waitMs = retryAfter ? parseInt(retryAfter, 10) * 1000 : 60000
WaitMs(retryAfter) ==
  IF retryAfter # NoHeader THEN TimesThousand(ParseInt(retryAfter))
  ELSE DEFAULT_RATE_LIMIT_WAIT

\* response.status >= 500 && attempt < MAX_RETRIES
RetriesServerError(status, attempt) == status >= 500 /\ attempt < MAX_RETRIES

\* The catch block without its backoff branch (for C26).
RequestCatchWithoutBackoff(attempt, error) ==
  IF attempt = MAX_RETRIES
    THEN Step("break", error, 0, "none")
  ELSE Step("continue", error, 0, "none")

\* The catch block of request().
RequestCatch(attempt, error) ==
  IF attempt < MAX_RETRIES /\ error.code = "ECONNRESET"
    THEN Step("sleep", error, RETRY_DELAYS[attempt + 1], "none")
  ELSE IF attempt = MAX_RETRIES
    THEN Step("break", error, 0, "none")
  ELSE Step("continue", error, 0, "none")

\* endpoint.includes('/download')
IsDownloadEndpoint(o) == o \in {"trackDownload", "downloadPhoto"}

\* response.status === 204 || response.headers.get('content-length') === '0'
HasNoContent(r) == r.status = 204 \/ r.contentLength0

\* The try block without the safeParse test: any parsed body is returned
\* (for C12).
RequestTryUnvalidated(o, attempt, lastError, r) ==
  IF r.status = 429
    THEN Step("sleep", lastError, WaitMs(r.retryAfter), "none")
  ELSE IF RetriesServerError(r.status, attempt)
    THEN Step("sleep", lastError, RETRY_DELAYS[attempt + 1], "none")
  ELSE IF ~IsOk(r.status)
    THEN RequestCatch(attempt, ApiError(r.status))
  ELSE IF HasNoContent(r)
    THEN Step("return", lastError, 0,
              IF IsDownloadEndpoint(o) THEN "emptyUrl" ELSE "emptyObject")
  ELSE IF r.body = "notJson"
    THEN RequestCatch(attempt, JsonSyntaxError)
  ELSE Step("return", lastError, 0, r.body)

\* The try block of request() for a response that fetch resolved with.
RequestTry(o, attempt, lastError, r) ==
  IF r.status = 429
    THEN Step("sleep", lastError, WaitMs(r.retryAfter), "none")
  ELSE IF RetriesServerError(r.status, attempt)
    THEN Step("sleep", lastError, RETRY_DELAYS[attempt + 1], "none")
  ELSE IF ~IsOk(r.status)
    THEN RequestCatch(attempt, ApiError(r.status))
  ELSE IF HasNoContent(r)
    THEN Step("return", lastError, 0,
              IF IsDownloadEndpoint(o) THEN "emptyUrl" ELSE "emptyObject")
  ELSE IF r.body = "notJson"
    THEN RequestCatch(attempt, JsonSyntaxError)
  ELSE IF SafeParse(o, Json(r.body))
    THEN Step("return", lastError, 0, r.body)
  ELSE RequestCatch(attempt, InvalidDataError)

---------------------------------------------------------------------------
(* What the test double records of one settled fetch of request()          *)

Bump(log, field) == [log EXCEPT ![field] = @ + 1]

IsClientError(status) == ~IsOk(status) /\ status # 429 /\ status < 500

\* The response has content that parses as JSON and fails the schema.
HasInvalidBody(r) ==
  /\ IsOk(r.status) /\ ~HasNoContent(r)
  /\ r.body # "notJson"
  /\ ~SafeParse(op, Json(r.body))

LogResponse(log, r, t) ==
  [log EXCEPT !.allServer = @ /\ r.status >= 500,
              !.all429 = @ /\ r.status = 429,
              !.sawClient = @ \/ IsClientError(r.status),
              !.sawInvalid = @ \/ HasInvalidBody(r),
              !.prevStatus = r.status,
              !.prevRetryAfter = r.retryAfter,
              !.prevNoContent = HasNoContent(r),
              !.prevAt = t]

LogNetworkError(log, t) ==
  [log EXCEPT !.allServer = FALSE, !.all429 = FALSE, !.prevStatus = 0,
              !.prevRetryAfter = NoHeader, !.prevNoContent = FALSE,
              !.prevAt = t]

LogIssue(log, t) == [Bump(log, "fetches") EXCEPT !.issuedAt = t]


---------------------------------------------------------------------------
(* Initial state: the client after construction, no call made yet          *)

LedgerUnused ==
  /\ disk = [kind |-> "absent"]
  /\ db = <<>>
  /\ ledgerOut = NoOutcome
  /\ ledgerLog = <<>>

ServerUnused == srv = [phase |-> "unused"]

ClientUnused ==
  /\ pc = "idle"
  /\ op = "none"
  /\ now = 0
  /\ rateLimitRemaining = INITIAL_RATE_LIMIT_REMAINING
  /\ rateLimitResetTime = 0
  /\ request = IdleRequest
  /\ download = IdleDownload
  /\ fileStream = NoFile
  /\ outcome = NoOutcome
  /\ reqLog = EmptyReqLog
  /\ dlLog = EmptyDlLog
  /\ lastResponse = NoResponse

Init ==
  /\ ClientUnused
  /\ LedgerUnused
  /\ ServerUnused

---------------------------------------------------------------------------
(* trackDownload: the try/catch around request()                           *)

\* trackDownload without its catch block (for C7).
TrackDownloadUncaught(res) ==
  IF res.kind = "returned" THEN Returned("{success:true}") ELSE res

TrackDownload(res) ==
  IF res.kind = "returned" THEN Returned("{success:true}")
  ELSE Returned("{success:false}")

(* downloadPhoto: entry into the image loop (attempt = 0, first fetch)     *)

StartImageLoop(tracked, trackLog, t) ==
  /\ pc' = "dl_fetch"
  /\ request' = IdleRequest
  /\ reqLog' = EmptyReqLog
  /\ download' = [IdleDownload EXCEPT !.tracked = tracked]
  /\ dlLog' = [Bump(EmptyDlLog, "fetches") EXCEPT
                 !.trackFetches = trackLog.fetches,
                 !.trackAllServer = trackLog.allServer]
  /\ UNCHANGED outcome

(* request() is entered: attempt = 0, lastError = null, first fetch issued *)

StartRequest(t) ==
  /\ pc' = "req_fetch"
  /\ request' = IdleRequest
  /\ reqLog' = LogIssue(EmptyReqLog, t)

(* request() ends with res (a return or a throw): control goes back to the *)
(* caller of request().                                                    *)

RequestEnds(res, log, t) ==
  IF op = "downloadPhoto"
    THEN LET tracked == TrackDownload(res) IN
         IF tracked.kind = "threw"
           THEN /\ pc' = "done"
                /\ outcome' = tracked
                /\ request' = IdleRequest
                /\ reqLog' = [log EXCEPT !.ended = res.kind]
                /\ UNCHANGED <<download, dlLog>>
           ELSE StartImageLoop(tracked.value, log, t)
  ELSE /\ pc' = "done"
       /\ outcome' = IF op = "trackDownload" THEN TrackDownload(res) ELSE res
       /\ request' = IdleRequest
       /\ reqLog' = [log EXCEPT !.ended = res.kind]
       /\ UNCHANGED <<download, dlLog>>

\* The for statement with a 429 answer not counted as an attempt (for C27).
RequestContinueSparingRateLimit(lastError, log, t) ==
  IF log.prevStatus = 429 \/ request.attempt + 1 <= MAX_RETRIES
    THEN /\ pc' = "req_fetch"
         /\ request' = [request EXCEPT
                          !.attempt = IF log.prevStatus = 429 THEN @ ELSE @ + 1,
                          !.lastError = lastError]
         /\ reqLog' = LogIssue(log, t)
         /\ UNCHANGED <<outcome, download, dlLog>>
    ELSE RequestEnds(Threw(lastError), log, t)

(* The for statement of request(): attempt++ and the test attempt <=       *)
(* MAX_RETRIES; past the loop, throw lastError.                            *)

RequestContinue(lastError, log, t) ==
  IF request.attempt + 1 <= MAX_RETRIES
    THEN /\ pc' = "req_fetch"
         /\ request' = [request EXCEPT !.attempt = @ + 1, !.lastError = lastError]
         /\ reqLog' = LogIssue(log, t)
         /\ UNCHANGED <<outcome, download, dlLog>>
    ELSE RequestEnds(Threw(lastError), log, t)

RequestApply(step, log, t) ==
  IF step.next = "sleep"
    THEN /\ pc' = "req_sleep"
         /\ request' = [request EXCEPT !.lastError = step.lastError,
                                       !.wakeAt = t + SleepDuration(step.delay)]
         /\ reqLog' = log
         /\ UNCHANGED <<outcome, download, dlLog>>
  ELSE IF step.next = "continue"
    THEN RequestContinue(step.lastError, log, t)
  ELSE IF step.next = "break"
    THEN RequestEnds(Threw(step.lastError), log, t)
  ELSE RequestEnds(Returned(step.value), log, t)

---------------------------------------------------------------------------
(* Actions of request()                                                    *)

\* A public method that is a call of request() is invoked.
Call(o) ==
  /\ pc = "idle"
  /\ o \in RequestOps
  /\ op' = o
  /\ outcome' = NoOutcome
  /\ download' = IdleDownload
  /\ dlLog' = EmptyDlLog
  /\ StartRequest(now)
  /\ UNCHANGED <<now, rateLimitRemaining, rateLimitResetTime, fileStream>>
  /\ UNCHANGED <<lastResponse, ledgerVars, serverVars>>

\* fetch resolves with a response.
RequestResponse(r) ==
  /\ pc = "req_fetch"
  /\ rateLimitRemaining' = UpdatedRemaining(rateLimitRemaining, r.remaining)
  /\ rateLimitResetTime' = UpdatedResetTime(now)
  /\ RequestApply(RequestTry(op, request.attempt, request.lastError, r),
                  LogResponse(reqLog, r, now), now)
  /\ UNCHANGED <<op, now, fileStream>>
  /\ lastResponse' = Received(lastResponse, r.remaining, now)
  /\ UNCHANGED <<ledgerVars, serverVars>>

\* fetch rejects (a network error).
RequestNetworkError(code) ==
  /\ pc = "req_fetch"
  /\ RequestApply(RequestCatch(request.attempt, NetworkError(code)),
                  LogNetworkError(reqLog, now), now)
  /\ UNCHANGED <<op, now, rateLimitRemaining, rateLimitResetTime, fileStream>>
  /\ UNCHANGED <<lastResponse, ledgerVars, serverVars>>

\* The timer of sleep() fires: continue.
RequestWake ==
  /\ pc = "req_sleep"
  /\ now' = request.wakeAt
  /\ RequestContinue(request.lastError, reqLog, request.wakeAt)
  /\ UNCHANGED <<op, rateLimitRemaining, rateLimitResetTime, fileStream>>
  /\ UNCHANGED <<lastResponse, ledgerVars, serverVars>>

---------------------------------------------------------------------------
(* downloadPhoto(): one iteration of the image loop.  A step ends in        *)
(*   "sleep"     await sleep(delay), then continue                          *)
(*   "continue"  the end of the catch block is reached: next iteration      *)
(*   "write"     the response is ok: createWriteStream and the transfer     *)

\* response.status >= 500 && attempt < MAX_RETRIES
DownloadRetriesServerError(status, attempt) == status >= 500 /\ attempt < MAX_RETRIES

\* The catch block of downloadPhoto().
DownloadCatch(attempt, error) ==
  IF attempt < MAX_RETRIES
    THEN Step("sleep", error, RETRY_DELAYS[attempt + 1], "none")
  ELSE Step("continue", error, 0, "none")

\* The try block of downloadPhoto() up to createWriteStream.
DownloadTry(attempt, lastError, status) ==
  IF ~IsOk(status)
    THEN IF DownloadRetriesServerError(status, attempt)
           THEN Step("sleep", lastError, RETRY_DELAYS[attempt + 1], "none")
         ELSE DownloadCatch(attempt, DownloadError(status))
  ELSE Step("write", lastError, 0, "none")

LogImageResponse(log, status) ==
  [log EXCEPT !.allServer = @ /\ status >= 500,
              !.sawClient = @ \/ IsClientError(status)]

LogImageFailure(log) == [log EXCEPT !.allServer = FALSE]

\* The for statement of downloadPhoto(): attempt++ and the test; past the
\* loop, throw lastError.
DownloadContinue(lastError, log, t) ==
  IF download.attempt + 1 <= MAX_RETRIES
    THEN /\ pc' = "dl_fetch"
         /\ download' = [download EXCEPT !.attempt = @ + 1, !.lastError = lastError]
         /\ dlLog' = Bump(log, "fetches")
         /\ UNCHANGED outcome
    ELSE /\ pc' = "done"
         /\ download' = [download EXCEPT !.lastError = lastError]
         /\ dlLog' = log
         /\ outcome' = Threw(lastError)

\* A step of the image loop that ends in a sleep or at the end of the catch block.
DownloadApply(step, log, t) ==
  IF step.next = "sleep"
    THEN /\ pc' = "dl_sleep"
         /\ download' = [download EXCEPT !.lastError = step.lastError,
                                         !.wakeAt = t + SleepDuration(step.delay)]
         /\ dlLog' = Bump(log, "sleeps")
         /\ UNCHANGED outcome
  ELSE DownloadContinue(step.lastError, log, t)

\* downloadPhoto going to the image loop without tracking first (for C8).
AfterEnsureDirUntracked(t) == StartImageLoop("none", EmptyReqLog, t)

\* await ensureDir(downloadDir) has resolved: await this.trackDownload(photo.id).
AfterEnsureDir(t) ==
  /\ StartRequest(t)
  /\ UNCHANGED <<outcome, download, dlLog>>

\* fileStream.on('finish', () => resolve(filePath)) and
\* fileStream.end(() => resolve(filePath)): the promise resolves when the
\* stream has finished.
ResolveOnFinish ==
  /\ fileStream' = [fileStream EXCEPT !.state = "finished"]
  /\ pc' = "done"
  /\ outcome' = Returned("filePath")
  /\ UNCHANGED <<download, dlLog>>

---------------------------------------------------------------------------
(* Actions of downloadPhoto()                                              *)

CallDownload ==
  /\ pc = "idle"
  /\ op' = "downloadPhoto"
  /\ pc' = "dl_ensureDir"
  /\ UNCHANGED <<now, rateLimitRemaining, rateLimitResetTime, request, download,
                 fileStream, outcome, reqLog, dlLog>>
  /\ UNCHANGED <<lastResponse, ledgerVars, serverVars>>

\* ensureDir settles.
DownloadEnsureDir(ok) ==
  /\ pc = "dl_ensureDir"
  /\ IF ok THEN AfterEnsureDir(now)
     ELSE /\ pc' = "done"
          /\ outcome' = Threw(EnsureDirError)
          /\ UNCHANGED <<request, reqLog, download, dlLog>>
  /\ UNCHANGED <<op, now, rateLimitRemaining, rateLimitResetTime, fileStream>>
  /\ UNCHANGED <<lastResponse, ledgerVars, serverVars>>

\* fetch(downloadUrl) resolves.  streaming: response.body instanceof
\* ReadableStream; total: the number of chunks of the body.
DownloadResponse(status, streaming, total) ==
  /\ pc = "dl_fetch"
  /\ LET step == DownloadTry(download.attempt, download.lastError, status)
         log == LogImageResponse(dlLog, status)
     IN IF step.next = "write"
          THEN /\ fileStream' = [state |-> "open", written |-> 0, total |-> total]
               /\ pc' = IF streaming THEN "dl_stream" ELSE "dl_buffer"
               /\ dlLog' = log
               /\ UNCHANGED <<download, outcome>>
          ELSE /\ DownloadApply(step, log, now)
               /\ UNCHANGED fileStream
  /\ UNCHANGED <<op, now, rateLimitRemaining, rateLimitResetTime, request, reqLog>>
  /\ UNCHANGED <<lastResponse, ledgerVars, serverVars>>

\* fetch(downloadUrl) rejects.
DownloadNetworkError(code) ==
  /\ pc = "dl_fetch"
  /\ DownloadApply(DownloadCatch(download.attempt, NetworkError(code)),
                   LogImageFailure(dlLog), now)
  /\ UNCHANGED <<op, now, rateLimitRemaining, rateLimitResetTime, request, reqLog,
                 fileStream>>
  /\ UNCHANGED <<lastResponse, ledgerVars, serverVars>>

\* The timer of sleep() fires: continue.
DownloadWake ==
  /\ pc = "dl_sleep"
  /\ now' = download.wakeAt
  /\ DownloadContinue(download.lastError, dlLog, download.wakeAt)
  /\ UNCHANGED <<op, rateLimitRemaining, rateLimitResetTime, request, reqLog,
                 fileStream>>
  /\ UNCHANGED <<lastResponse, ledgerVars, serverVars>>

\* Streaming path: reader.read() yields a chunk, which the pipe writes.
StreamChunk ==
  /\ pc = "dl_stream"
  /\ fileStream.state = "open"
  /\ fileStream.written < fileStream.total
  /\ fileStream' = [fileStream EXCEPT !.written = @ + 1]
  /\ UNCHANGED <<pc, op, now, rateLimitRemaining, rateLimitResetTime, request,
                 download, outcome, reqLog, dlLog>>
  /\ UNCHANGED <<lastResponse, ledgerVars, serverVars>>

\* Streaming path: reader.read() yields done, push(null) ends the pipe, the
\* write stream emits 'finish'.
StreamFinish ==
  /\ pc = "dl_stream"
  /\ fileStream.state = "open"
  /\ fileStream.written = fileStream.total
  /\ ResolveOnFinish
  /\ UNCHANGED <<op, now, rateLimitRemaining, rateLimitResetTime, request, reqLog>>
  /\ UNCHANGED <<lastResponse, ledgerVars, serverVars>>

\* Streaming path: the write stream emits 'error' (open or write failure):
\* reject, caught by the catch block.
StreamWriteError ==
  /\ pc = "dl_stream"
  /\ fileStream.state = "open"
  /\ fileStream' = [fileStream EXCEPT !.state = "errored"]
  /\ DownloadApply(DownloadCatch(download.attempt, WriteError), dlLog, now)
  /\ UNCHANGED <<op, now, rateLimitRemaining, rateLimitResetTime, request, reqLog>>
  /\ UNCHANGED <<lastResponse, ledgerVars, serverVars>>

\* Streaming path: reader.read() rejects inside read(): nothing is pushed any
\* more, the write stream emits neither 'finish' nor 'error'.
StreamReadError ==
  /\ pc = "dl_stream"
  /\ fileStream.state = "open"
  /\ fileStream.written < fileStream.total
  /\ pc' = "dl_pending"
  /\ UNCHANGED <<op, now, rateLimitRemaining, rateLimitResetTime, request,
                 download, fileStream, outcome, reqLog, dlLog>>
  /\ UNCHANGED <<lastResponse, ledgerVars, serverVars>>

\* Fallback path: await response.arrayBuffer() settles.
BufferSettles(ok) ==
  /\ pc = "dl_buffer"
  /\ IF ok THEN /\ pc' = "dl_write"
                /\ UNCHANGED <<download, outcome, dlLog>>
     ELSE DownloadApply(DownloadCatch(download.attempt, BodyReadError), dlLog, now)
  /\ UNCHANGED <<op, now, rateLimitRemaining, rateLimitResetTime, request, reqLog,
                 fileStream>>
  /\ UNCHANGED <<lastResponse, ledgerVars, serverVars>>

\* The write callback without its test of err: the stream is ended and the
\* promise resolved whatever the write did (for C10).
WriteCallbackIgnoringError(ok) ==
  /\ pc = "dl_write"
  /\ fileStream' = IF ok THEN [fileStream EXCEPT !.written = fileStream.total]
                   ELSE [fileStream EXCEPT !.state = "errored"]
  /\ pc' = "done"
  /\ outcome' = Returned("filePath")
  /\ UNCHANGED <<download, dlLog>>
  /\ UNCHANGED <<op, now, rateLimitRemaining, rateLimitResetTime, request, reqLog>>
  /\ UNCHANGED <<lastResponse, ledgerVars, serverVars>>

\* Fallback path: the callback of fileStream.write(nodeBuffer, cb) is called.
WriteCallback(ok) ==
  /\ pc = "dl_write"
  /\ IF ok THEN /\ fileStream' = [fileStream EXCEPT !.written = fileStream.total]
                /\ pc' = "dl_end"
                /\ UNCHANGED <<download, outcome, dlLog>>
     ELSE /\ fileStream' = [fileStream EXCEPT !.state = "errored"]
          /\ DownloadApply(DownloadCatch(download.attempt, WriteError), dlLog, now)
  /\ UNCHANGED <<op, now, rateLimitRemaining, rateLimitResetTime, request, reqLog>>
  /\ UNCHANGED <<lastResponse, ledgerVars, serverVars>>

\* Fallback path: the callback of fileStream.end(cb) is called.
EndCallback ==
  /\ pc = "dl_end"
  /\ ResolveOnFinish
  /\ UNCHANGED <<op, now, rateLimitRemaining, rateLimitResetTime, request, reqLog>>
  /\ UNCHANGED <<lastResponse, ledgerVars, serverVars>>

\* The write stream, finished, closes its file descriptor (autoClose) and
\* emits 'close'.
FileClose ==
  /\ fileStream.state = "finished"
  /\ fileStream' = [fileStream EXCEPT !.state = "closed"]
  /\ UNCHANGED <<pc, op, now, rateLimitRemaining, rateLimitResetTime, request,
                 download, outcome, reqLog, dlLog>>
  /\ UNCHANGED <<lastResponse, ledgerVars, serverVars>>

---------------------------------------------------------------------------
Next ==
  \/ \E o \in RequestOps : Call(o)
  \/ \E r \in HttpResponses : RequestResponse(r)
  \/ \E c \in NetworkCodes : RequestNetworkError(c)
  \/ RequestWake
  \/ CallDownload
  \/ \E ok \in BOOLEAN : DownloadEnsureDir(ok)
  \/ \E st \in Statuses, streaming \in BOOLEAN, total \in 0..MaxChunks :
        DownloadResponse(st, streaming, total)
  \/ \E c \in NetworkCodes : DownloadNetworkError(c)
  \/ DownloadWake
  \/ StreamChunk
  \/ StreamFinish
  \/ StreamWriteError
  \/ StreamReadError
  \/ \E ok \in BOOLEAN : BufferSettles(ok)
  \/ \E ok \in BOOLEAN : WriteCallback(ok)
  \/ EndCallback
  \/ FileClose

Spec == Init /\ [][Next]_vars

---------------------------------------------------------------------------
(* The attribution ledger (AttributionManager)                             *)
(*                                                                         *)
(* A path is the sequence of its characters.  this.db is what JSON.parse   *)
(* gave or the empty database: a database (an object whose attributions    *)
(* member is an object), or a value of another shape (null, [], {}), of    *)
(* which this.db.attributions throws or is undefined.  The members of      *)
(* attributions are kept in insertion order, as Object.values lists them.  *)

MaxAdds == 2

PhotoIds == {"p1", "p2", "p3"}

NullName == "<null>"

LedgerPhoto(id, name) == [id |-> id, name |-> name, username |-> "ann"]

\* The calls of addAttribution: a photo and the path of its file
AddInputs ==
  { <<LedgerPhoto("p1", "Ann Lee"), <<"/", "a", "/", "A", "/", "f">> >>,
    <<LedgerPhoto("p1", ""), <<"/", "a", "/", "B", "/", "f">> >>,
    <<LedgerPhoto("p2", NullName), <<"/", "a", "/", "A", "B", "/", "g">> >>,
    <<LedgerPhoto("p2", "Ann Lee"), <<"/", "a", "/", "B", "/", "f">> >> }

ProjectPaths ==
  { <<"/", "a", "/", "A">>, <<"/", "a", "/", "B">>, <<"/", "a", "/", "A", "/">>,
    <<>> }

TypeError == [type |-> "TypeError", status |-> 0, code |-> "none"]

\* null, as getAttribution returns it
Null == [id |-> NullName]

RECURSIVE LastIndexOf(_, _)
LastIndexOf(s, c) ==
  IF s = <<>> THEN 0
  ELSE IF s[Len(s)] = c THEN Len(s)
  ELSE LastIndexOf(SubSeq(s, 1, Len(s) - 1), c)

\* path.dirname of a path without a trailing separator
Dirname(p) ==
  LET k == LastIndexOf(p, "/") IN
    IF k = 0 THEN <<".">>
    ELSE IF k = 1 THEN <<"/">>
    ELSE SubSeq(p, 1, k - 1)

\* path.basename
Basename(p) == SubSeq(p, LastIndexOf(p, "/") + 1, Len(p))

\* String.prototype.startsWith
RECURSIVE StartsWith(_, _)
StartsWith(s, prefix) ==
  IF prefix = <<>> THEN TRUE
  ELSE IF s = <<>> THEN FALSE
  ELSE Head(s) = Head(prefix) /\ StartsWith(Tail(s), Tail(prefix))

Unconstructed == [shape |-> "unconstructed", attributions |-> <<>>]

EmptyDatabase == [shape |-> "database", attributions |-> <<>>]

\* this.db.attributions is an object
HasAttributions(d) == d.shape = "database"

\* photo.user.name || photo.user.username
Photographer(photo) ==
  IF photo.name # NullName /\ photo.name # "" THEN photo.name
  ELSE photo.username

\* The attribution addAttribution builds (source and license are constants,
\* photographerUrl and sourceUrl are functions of username and id).
NewAttribution(photo, filePath, t) ==
  [id |-> photo.id, photographer |-> Photographer(photo),
   username |-> photo.username, downloadDate |-> t,
   projectPath |-> Dirname(filePath), projectFile |-> Basename(filePath)]

IndexOfId(attributions, id) ==
  IF \E i \in 1..Len(attributions) : attributions[i].id = id
    THEN CHOOSE i \in 1..Len(attributions) : attributions[i].id = id
  ELSE 0

\* An assignment that drops the other members (for C30).
PutAlone(attributions, rec) == <<rec>>

\* An assignment that adds a member even when the key exists (for C17).
PutAppending(attributions, rec) == Append(attributions, rec)

\* this.db.attributions[photo.id] = attribution
Put(attributions, rec) ==
  IF IndexOfId(attributions, rec.id) # 0
    THEN [attributions EXCEPT ![IndexOfId(attributions, rec.id)] = rec]
  ELSE Append(attributions, rec)

\* JSON.stringify(this.db, null, 2): the text lists, per member of
\* attributions, its key and the values of its members.
Stringify(d) ==
  [shape |-> d.shape,
   entries |-> [i \in 1..Len(d.attributions) |->
                  LET a == d.attributions[i] IN
                    <<a.id, a.photographer, a.username, a.downloadDate,
                      a.projectPath, a.projectFile>>]]

\* JSON.parse(data) as AttributionDatabase
Parse(text) ==
  [shape |-> text.shape,
   attributions |-> [i \in 1..Len(text.entries) |->
                       LET e == text.entries[i] IN
                         [id |-> e[1], photographer |-> e[2], username |-> e[3],
                          downloadDate |-> e[4], projectPath |-> e[5],
                          projectFile |-> e[6]]]]

NoText == [shape |-> "none", entries |-> <<>>]

AbsentFile == [kind |-> "absent", text |-> NoText]

\* A file that JSON.parse rejects
UnparsableFile == [kind |-> "unparsable", text |-> NoText]

JsonFile(text) == [kind |-> "json", text |-> text]

\* A loadDatabase that does not look at the file (for C14).
LoadDatabaseIgnoringFile(file, readOk) == EmptyDatabase

\* loadDatabase: readOk is whether readFileSync succeeds.
LoadDatabase(file, readOk) ==
  IF file.kind = "absent" THEN EmptyDatabase
  ELSE IF ~readOk \/ file.kind = "unparsable" THEN EmptyDatabase
  ELSE Parse(file.text)

SaveResults == {"written", "unchanged", "truncated"}

\* A saveDatabase that writes only the newest member of attributions
\* (for C25).
SaveDatabaseNewestOnly(d, file, result) ==
  IF result = "written"
    THEN [file |-> JsonFile(Stringify(
                     [d EXCEPT !.attributions =
                        IF @ = <<>> THEN <<>> ELSE <<@[Len(@)]>>])),
          error |-> NullError]
  ELSE IF result = "truncated"
    THEN [file |-> UnparsableFile, error |-> NullError]
  ELSE [file |-> file, error |-> NullError]

RECURSIVE PutAll(_, _)
PutAll(attributions, recs) ==
  IF recs = <<>> THEN attributions
  ELSE PutAll(Put(attributions, Head(recs)), Tail(recs))

\* A saveDatabase that merges the database into what the file holds
\* (for C23).
SaveDatabaseMerging(d, file, result) ==
  IF result = "written"
    THEN [file |-> JsonFile(Stringify(
                     [d EXCEPT !.attributions =
                        PutAll(Parse(file.text).attributions, @)])),
          error |-> NullError]
  ELSE IF result = "truncated"
    THEN [file |-> UnparsableFile, error |-> NullError]
  ELSE [file |-> file, error |-> NullError]

\* saveDatabase without its try/catch (for C16).
SaveDatabaseUncaught(d, file, result) ==
  IF result = "written"
    THEN [file |-> JsonFile(Stringify(d)), error |-> NullError]
  ELSE IF result = "truncated"
    THEN [file |-> UnparsableFile, error |-> WriteError]
  ELSE [file |-> file, error |-> WriteError]

\* saveDatabase: ensureDirSync and writeFileSync inside try/catch.  A write
\* that fails leaves the file as it was or cut short; the error is logged.
SaveDatabase(d, file, result) ==
  IF result = "written"
    THEN [file |-> JsonFile(Stringify(d)), error |-> NullError]
  ELSE IF result = "truncated"
    THEN [file |-> UnparsableFile, error |-> NullError]
  ELSE [file |-> file, error |-> NullError]

\* getAttribution: this.db.attributions[photoId] || null
GetAttribution(d, id) ==
  IF ~HasAttributions(d) THEN Threw(TypeError)
  ELSE IF IndexOfId(d.attributions, id) = 0 THEN Returned(Null)
  ELSE Returned(d.attributions[IndexOfId(d.attributions, id)])

\* getAllAttributions: Object.values(this.db.attributions)
GetAllAttributions(d) ==
  IF ~HasAttributions(d) THEN Threw(TypeError) ELSE Returned(d.attributions)

\* A filter that compares the directories for equality (for C19).
InProjectExactly(attr, projectPath) == attr.projectPath = projectPath

\* The filter of getAttributionsForProject
InProject(attr, projectPath) ==
  attr.projectPath # <<>> /\ StartsWith(attr.projectPath, projectPath)

RECURSIVE Filter(_, _)
Filter(attributions, projectPath) ==
  IF attributions = <<>> THEN <<>>
  ELSE LET rest == Filter(Tail(attributions), projectPath) IN
         IF InProject(Head(attributions), projectPath)
           THEN <<Head(attributions)>> \o rest
         ELSE rest

GetAttributionsForProject(d, projectPath) ==
  IF ~HasAttributions(d) THEN Threw(TypeError)
  ELSE Returned(Filter(d.attributions, projectPath))

(* The state of the ledger's callers                                        *)

Instances == {1, 2}

NoPhotoAdded == [id |-> "none", name |-> NullName, username |-> "none"]

\* What the callers of the ledger have done and seen: the shape of the file
\* before the first instance was constructed; the number of addAttribution
\* calls; whether some save failed, whether the last one did; whether every
\* constructor could read the file; whether no attribution was added
\* since the last constructor; the last operation, its instance and
\* arguments; per photo id the attribution the most recent addAttribution
\* for it built (<<>> if none); the number of attributions, and whether the
\* id was among them, before the last addAttribution; the instances whose
\* saveDatabase has written the file.
EmptyLedgerLog ==
  [initialFile |-> "none", adds |-> 0, saveFailed |-> FALSE,
   lastSaveFailed |-> FALSE, readOk |-> TRUE, fresh |-> FALSE,
   lastOp |-> "none", instance |-> 0, photoId |-> "none",
   projectPath |-> <<>>, photo |-> NoPhotoAdded,
   added |-> [id \in PhotoIds |-> <<>>], sizeBefore |-> 0,
   wasPresent |-> FALSE, saved |-> {}]

FileShape(file) == IF file.kind = "json" THEN file.text.shape ELSE file.kind

\* An attribution an earlier process has written
EarlierAttribution ==
  NewAttribution(LedgerPhoto("p1", "Ann Lee"),
                 <<"/", "a", "/", "B", "/", "f">>, 0)

\* The states the file can be in before the process starts
InitialFiles ==
  { AbsentFile, UnparsableFile,
    JsonFile([shape |-> "null", entries |-> <<>>]),
    JsonFile([shape |-> "array", entries |-> <<>>]),
    JsonFile([shape |-> "object", entries |-> <<>>]),
    JsonFile(Stringify(EmptyDatabase)),
    JsonFile(Stringify([EmptyDatabase EXCEPT
                          !.attributions = <<EarlierAttribution>>])) }

ClientVarsButNow ==
  <<pc, op, rateLimitRemaining, rateLimitResetTime, request, download,
    fileStream, outcome, reqLog, dlLog, lastResponse>>

LedgerInit ==
  /\ ClientUnused
  /\ ServerUnused
  /\ disk \in InitialFiles
  /\ db = [i \in Instances |-> Unconstructed]
  /\ ledgerOut = NoOutcome
  /\ ledgerLog = EmptyLedgerLog

\* new AttributionManager(dbDirectory); the second instance is constructed
\* on the same directory as the first, after it.
Construct(i, readOk) ==
  /\ db[i] = Unconstructed
  /\ i = 2 => db[1] # Unconstructed
  /\ db' = [db EXCEPT ![i] = LoadDatabase(disk, readOk)]
  /\ ledgerOut' = Returned(Null)
  /\ ledgerLog' = [ledgerLog EXCEPT
                     !.initialFile = IF i = 1 THEN FileShape(disk) ELSE @,
                     !.readOk = @ /\ (readOk \/ disk.kind = "absent"),
                     !.fresh = TRUE,
                     !.lastOp = "constructor", !.instance = i]
  /\ UNCHANGED <<disk, clientVars, serverVars>>

\* The body of addAttribution(photo, filePath) on instance i at time t.
DoAddAttributionOn(i, photo, filePath, t, result) ==
  /\ db[i] # Unconstructed
  /\ LET attribution == NewAttribution(photo, filePath, t)
         log == [ledgerLog EXCEPT
                   !.adds = @ + 1, !.fresh = FALSE,
                   !.lastOp = "addAttribution", !.instance = i,
                   !.photoId = photo.id, !.photo = photo,
                   !.sizeBefore = Len(db[i].attributions),
                   !.wasPresent = IndexOfId(db[i].attributions, photo.id) # 0]
     IN IF ~HasAttributions(db[i])
          THEN /\ result = "written"
               /\ ledgerOut' = Threw(TypeError)
               /\ ledgerLog' = log
               /\ UNCHANGED <<disk, db>>
          ELSE LET updated == [db[i] EXCEPT
                                 !.attributions = Put(@, attribution)]
                   saved == SaveDatabase(updated, disk, result)
               IN /\ db' = [db EXCEPT ![i] = updated]
                  /\ disk' = saved.file
                  /\ ledgerOut' = IF saved.error = NullError
                                    THEN Returned(attribution)
                                  ELSE Threw(saved.error)
                  /\ ledgerLog' = [log EXCEPT
                        !.saveFailed = @ \/ result # "written",
                        !.lastSaveFailed = result # "written",
                        !.added[photo.id] = <<attribution>>,
                        !.saved = IF result = "written" THEN @ \cup {i} ELSE @]

\* The body of addAttribution(photo, filePath) on the first instance.
DoAddAttribution(photo, filePath, t, result) ==
  DoAddAttributionOn(1, photo, filePath, t, result)

\* addAttribution(photo, filePath) is called on the first instance, before
\* the second one is constructed (the file has one writer).
AddAttribution(photo, filePath, t, result) ==
  /\ db[2] = Unconstructed
  /\ ledgerLog.adds < MaxAdds
  /\ now' = t
  /\ DoAddAttribution(photo, filePath, t, result)
  /\ UNCHANGED <<ClientVarsButNow, serverVars>>

CallGetAttribution(i, id) ==
  /\ db[i] # Unconstructed
  /\ ledgerOut' = GetAttribution(db[i], id)
  /\ ledgerLog' = [ledgerLog EXCEPT !.lastOp = "getAttribution",
                                    !.instance = i, !.photoId = id]
  /\ UNCHANGED <<disk, db, clientVars, serverVars>>

CallGetAllAttributions(i) ==
  /\ db[i] # Unconstructed
  /\ ledgerOut' = GetAllAttributions(db[i])
  /\ ledgerLog' = [ledgerLog EXCEPT !.lastOp = "getAllAttributions",
                                    !.instance = i]
  /\ UNCHANGED <<disk, db, clientVars, serverVars>>

CallGetAttributionsForProject(i, projectPath) ==
  /\ db[i] # Unconstructed
  /\ ledgerOut' = GetAttributionsForProject(db[i], projectPath)
  /\ ledgerLog' = [ledgerLog EXCEPT !.lastOp = "getAttributionsForProject",
                                    !.instance = i,
                                    !.projectPath = projectPath]
  /\ UNCHANGED <<disk, db, clientVars, serverVars>>

LedgerNext ==
  \/ \E i \in Instances, readOk \in BOOLEAN : Construct(i, readOk)
  \/ \E input \in AddInputs, result \in SaveResults :
        AddAttribution(input[1], input[2], now + 1, result)
  \/ \E i \in Instances, id \in PhotoIds : CallGetAttribution(i, id)
  \/ \E i \in Instances : CallGetAllAttributions(i)
  \/ \E i \in Instances, projectPath \in ProjectPaths :
        CallGetAttributionsForProject(i, projectPath)

LedgerSpec == LedgerInit /\ [][LedgerNext]_vars

---------------------------------------------------------------------------
(* Two ledger writers on one directory                                     *)
(*                                                                         *)
(* Two AttributionManager instances (two processes, or two managers of one *)
(* process) on the same dbDirectory: each loads the file once, in its      *)
(* constructor, and each addAttribution saves the instance's own database. *)
(* The calls are synchronous, so they interleave as wholes.                *)

\* The states of the file before the writers start
WriterFiles ==
  { AbsentFile,
    JsonFile(Stringify([EmptyDatabase EXCEPT
                          !.attributions = <<EarlierAttribution>>])) }

WritersInit ==
  /\ ClientUnused
  /\ ServerUnused
  /\ disk \in WriterFiles
  /\ db = [i \in Instances |-> Unconstructed]
  /\ ledgerOut = NoOutcome
  /\ ledgerLog = EmptyLedgerLog

\* addAttribution(photo, filePath) is called on instance i.
WriterAddAttribution(i, photo, filePath, t, result) ==
  /\ ledgerLog.adds < MaxAdds
  /\ now' = t
  /\ DoAddAttributionOn(i, photo, filePath, t, result)
  /\ UNCHANGED <<ClientVarsButNow, serverVars>>

WritersNext ==
  \/ \E i \in Instances, readOk \in BOOLEAN : Construct(i, readOk)
  \/ \E i \in Instances, input \in AddInputs, result \in SaveResults :
        WriterAddAttribution(i, input[1], input[2], now + 1, result)

WritersSpec == WritersInit /\ [][WritersNext]_vars

---------------------------------------------------------------------------
(* The download loop of stock_photo's execute (downloadMode 'auto')        *)
(*                                                                         *)
(* The handler runs on the module's unsplashClient and attributionManager: *)
(* each iteration awaits downloadPhoto (the actions of downloadPhoto       *)
(* above), calls addAttribution, and awaits addAttributionMetadata.        *)

MaxPhotos == 2

\* The photos of the search results as the loop and the ledger see them, in
\* the order of the results; at most one more than MaxPhotos of them
SelectedPhotos ==
  <<LedgerPhoto("p1", "Ann Lee"), LedgerPhoto("p2", NullName),
    LedgerPhoto("p3", "")>>

\* path.join(imagesDir, fileName + '.jpg'), which downloadPhoto resolves with
ServerFilePath == <<"/", "a", "/", "A", "/", "f">>

DownloadModes == {"auto", "urls_only"}

\* new UserError(message): the message's fixed part and the message of the
\* error it reports ("none" if it reports no other error).
UserError(message, cause) ==
  [type |-> "UserError", message |-> message, cause |-> cause]

\* throw new UserError(`No photos found matching "${searchQuery}"`)
NoPhotosFound == UserError("No photos found matching", "none")

\* Frame of execute: where the handler is suspended (phase), downloadMode,
\* args.count, the number of fs.promises.mkdir and of searchPhotos calls it
\* has made, results.total (twice its value, NaN before the search and when
\* it is undefined), the number of selected photos, i (from 1); what has
\* happened per photo: some network or disk operation for it has begun, its
\* downloadPhoto has resolved, addAttribution has returned for it, the state
\* of its metadata step; and how execute ended.
ServerIdle ==
  [phase |-> "idle", mode |-> "none", requested |-> 0, mkdirs |-> 0,
   searches |-> 0, total |-> NaN, i |-> 0, count |-> 0, started |-> {},
   resolved |-> {}, attributed |-> {},
   metadata |-> [k \in 1..Len(SelectedPhotos) |-> "none"],
   result |-> NoOutcome]

\* The responses and statuses the upstream gives while the handler runs
ServerResponses ==
  { r \in [status : {200, 404}, remaining : {NoHeader},
           retryAfter : {NoHeader}, contentLength0 : {FALSE},
           body : {"tracking", "emptyObject", "search0", "searchNegativeWidth",
                   "search3"}] :
      ~IsOk(r.status) => r.body = "emptyObject" }

ServerStatuses == {200, 404}

ServerSaveResults == {"written", "unchanged"}

ServerFiles == {AbsentFile, JsonFile([shape |-> "null", entries |-> <<>>])}

ServerInit ==
  /\ ClientUnused
  /\ disk \in ServerFiles
  /\ db = [i \in Instances |->
             IF i = 1 THEN LoadDatabase(disk, TRUE) ELSE Unconstructed]
  /\ ledgerOut = NoOutcome
  /\ ledgerLog = [EmptyLedgerLog EXCEPT !.initialFile = FileShape(disk)]
  /\ srv = ServerIdle

\* The catch block that skips the photo and goes on with the loop (for C21).
ServerCatchSkippingPhoto(s, error) ==
  IF s.i + 1 <= s.count
    THEN /\ srv' = [s EXCEPT !.phase = "downloading", !.i = s.i + 1,
                             !.started = @ \cup {s.i + 1}]
         /\ pc' = "dl_ensureDir"
         /\ op' = "downloadPhoto"
         /\ outcome' = NoOutcome
         /\ request' = IdleRequest
         /\ download' = IdleDownload
         /\ reqLog' = EmptyReqLog
         /\ dlLog' = EmptyDlLog
  ELSE /\ srv' = [s EXCEPT !.phase = "returned", !.result = Returned("auto")]
       /\ UNCHANGED <<pc, op, outcome, request, download, reqLog, dlLog>>

\* The catch block of execute: log.error, throw new UserError(`Failed to
\* process stock photo request: ${error.message}`).
ServerCatch(s, error) ==
  /\ srv' = [s EXCEPT
               !.phase = "failed",
               !.result = Threw(UserError("Failed to process stock photo request",
                                          error.type))]
  /\ UNCHANGED <<pc, op, outcome, request, download, reqLog, dlLog>>

\* unsplashClient.downloadPhoto(photo, imagesDir, fileName, downloadUrl) is
\* called for photo k: ensureDir(downloadDir) is started.
StartDownload(s, k) ==
  /\ srv' = [s EXCEPT !.phase = "downloading", !.i = k,
                      !.started = @ \cup {k}]
  /\ pc' = "dl_ensureDir"
  /\ op' = "downloadPhoto"
  /\ outcome' = NoOutcome
  /\ request' = IdleRequest
  /\ download' = IdleDownload
  /\ reqLog' = EmptyReqLog
  /\ dlLog' = EmptyDlLog

\* i++ and the test i < selectedPhotos.length; past the loop, return.
NextPhoto(s) ==
  IF s.i + 1 <= s.count THEN StartDownload(s, s.i + 1)
  ELSE /\ srv' = [s EXCEPT !.phase = "returned", !.result = Returned("auto")]
       /\ UNCHANGED <<pc, op, outcome, request, download, reqLog, dlLog>>

\* The loop calling addAttributionMetadata without await (for C20).
AfterAttributionNotAwaiting(s) ==
  NextPhoto([s EXCEPT !.metadata[s.i] = "running"])

\* await metadataManager.addAttributionMetadata(filePath, photo)
AfterAttribution(s) ==
  /\ srv' = [s EXCEPT !.phase = "metadata", !.metadata[s.i] = "running"]
  /\ UNCHANGED <<pc, op, outcome, request, download, reqLog, dlLog>>

\* execute reaches the loop (let i = 0) with the selected photos.
ServerStart(s) == NextPhoto([s EXCEPT !.i = 0])

\* A handler that sets up the output directory in every mode (for C29).
SetsUpDirectoriesAlways(mode) == TRUE

\* args.downloadMode !== 'urls_only'
SetsUpDirectories(mode) == mode # "urls_only"

\* await unsplashClient.searchPhotos(searchQuery, 1, ...) is called.
StartSearch(s) ==
  /\ srv' = [s EXCEPT !.phase = "searching", !.searches = @ + 1]
  /\ op' = "searchPhotos"
  /\ outcome' = NoOutcome
  /\ download' = IdleDownload
  /\ dlLog' = EmptyDlLog
  /\ StartRequest(now)

\* execute(args) is called: in a downloading mode
\* await fs.promises.mkdir(categoryDir, { recursive: true }), else the search.
ServerExecute(mode, count) ==
  /\ srv.phase = "idle"
  /\ LET s == [srv EXCEPT !.mode = mode, !.requested = count] IN
       IF SetsUpDirectories(mode)
         THEN /\ srv' = [s EXCEPT !.phase = "mkdir", !.mkdirs = @ + 1]
              /\ UNCHANGED <<pc, op, outcome, request, download, reqLog, dlLog>>
       ELSE StartSearch(s)
  /\ UNCHANGED <<now, rateLimitRemaining, rateLimitResetTime, fileStream,
                 lastResponse, ledgerVars>>

\* mkdir of the output directory settles; its failure is thrown as a
\* UserError before the try block of execute.
ServerMkdirSettles(ok) ==
  /\ srv.phase = "mkdir"
  /\ IF ok THEN StartSearch(srv)
     ELSE /\ srv' = [srv EXCEPT
                       !.phase = "failed",
                       !.result = Threw(UserError("Failed to create output directory",
                                                  EnsureDirError.type))]
          /\ UNCHANGED <<pc, op, outcome, request, download, reqLog, dlLog>>
  /\ UNCHANGED <<now, rateLimitRemaining, rateLimitResetTime, fileStream,
                 lastResponse, ledgerVars>>

\* filteredResults.slice(0, args.count).length
SelectedCount(results, count) ==
  IF Len(results.items) < count THEN Len(results.items) ELSE count

\* await searchPhotos settles.  Rejected: the catch block.  Resolved with
\* results: results.total === 0 throws the UserError inside the try block;
\* results.results.filter throws when results is {}; else the photos are
\* selected and, by downloadMode, the images directory is made (args.count >
\* 1), the loop is entered, or the URLs are returned.
ServerSearchSettles ==
  /\ srv.phase = "searching"
  /\ pc = "done"
  /\ IF outcome.kind = "threw" THEN ServerCatch(srv, outcome.error)
     ELSE LET results == Json(outcome.value)
              s == [srv EXCEPT
                      !.total = IF results.total.type = "number"
                                  THEN results.total.twice ELSE NaN,
                      !.count = SelectedCount(results.results, srv.requested)]
          IN IF results.total = Num(0) THEN ServerCatch(s, NoPhotosFound)
             ELSE IF results.results.type # "array" THEN ServerCatch(s, TypeError)
             ELSE IF s.mode = "auto"
               THEN IF s.requested > 1
                      THEN /\ srv' = [s EXCEPT !.phase = "imagesDir",
                                               !.mkdirs = @ + 1]
                           /\ UNCHANGED <<pc, op, outcome, request, download,
                                          reqLog, dlLog>>
                    ELSE ServerStart(s)
             ELSE /\ srv' = [s EXCEPT !.phase = "returned",
                                      !.result = Returned("urls_only")]
                  /\ UNCHANGED <<pc, op, outcome, request, download, reqLog,
                                 dlLog>>
  /\ UNCHANGED <<now, rateLimitRemaining, rateLimitResetTime, fileStream,
                 lastResponse, ledgerVars>>

\* await fs.promises.mkdir(imagesDir, { recursive: true }) settles.
ServerImagesDirSettles(ok) ==
  /\ srv.phase = "imagesDir"
  /\ IF ok THEN ServerStart(srv) ELSE ServerCatch(srv, EnsureDirError)
  /\ UNCHANGED <<now, rateLimitRemaining, rateLimitResetTime, fileStream,
                 lastResponse, ledgerVars>>

\* A loop that records the attribution whether or not downloadPhoto
\* resolved (for C24).
ServerDownloadSettlesAttributingAnyway(result) ==
  /\ srv.phase = "downloading"
  /\ pc = "done"
  /\ DoAddAttribution(SelectedPhotos[srv.i], ServerFilePath, now, result)
  /\ IF ~HasAttributions(db[1])
       THEN ServerCatch(srv, TypeError)
     ELSE AfterAttribution([srv EXCEPT
            !.resolved = IF outcome.kind = "returned" THEN @ \cup {srv.i} ELSE @,
            !.attributed = @ \cup {srv.i}])
  /\ UNCHANGED <<now, rateLimitRemaining, rateLimitResetTime, fileStream,
                 lastResponse>>

\* await downloadPhoto(...) settles.  Rejected: the catch block.  Resolved:
\* addAttribution(photo, filePath) runs; if it throws, the catch block, else
\* addAttributionMetadata is called.
ServerDownloadSettles(result) ==
  /\ srv.phase = "downloading"
  /\ pc = "done"
  /\ IF outcome.kind = "threw"
       THEN /\ result = "written"
            /\ ServerCatch(srv, outcome.error)
            /\ UNCHANGED ledgerVars
     ELSE /\ DoAddAttribution(SelectedPhotos[srv.i], ServerFilePath, now, result)
          /\ IF ~HasAttributions(db[1])
               THEN ServerCatch([srv EXCEPT !.resolved = @ \cup {srv.i}],
                                TypeError)
             ELSE AfterAttribution([srv EXCEPT !.resolved = @ \cup {srv.i},
                                               !.attributed = @ \cup {srv.i}])
  /\ UNCHANGED <<now, rateLimitRemaining, rateLimitResetTime, fileStream,
                 lastResponse>>

\* addAttributionMetadata for photo k settles (it swallows its errors; the
\* handler's catch would log one): push to photoInfoList, next iteration.
ServerMetadataSettles(k) ==
  /\ k \in 1..Len(SelectedPhotos)
  /\ srv.metadata[k] = "running"
  /\ IF srv.phase = "metadata" /\ srv.i = k
       THEN NextPhoto([srv EXCEPT !.metadata[k] = "done"])
     ELSE /\ srv' = [srv EXCEPT !.metadata[k] = "done"]
          /\ UNCHANGED <<pc, op, outcome, request, download, reqLog, dlLog>>
  /\ UNCHANGED <<now, rateLimitRemaining, rateLimitResetTime, fileStream,
                 lastResponse, ledgerVars>>

ServerNext ==
  \/ \E mode \in DownloadModes, count \in 1..MaxPhotos : ServerExecute(mode, count)
  \/ \E ok \in BOOLEAN : ServerMkdirSettles(ok)
  \/ ServerSearchSettles
  \/ \E ok \in BOOLEAN : ServerImagesDirSettles(ok)
  \/ \E result \in ServerSaveResults : ServerDownloadSettles(result)
  \/ \E k \in 1..Len(SelectedPhotos) : ServerMetadataSettles(k)
  \/ \E ok \in BOOLEAN : DownloadEnsureDir(ok)
  \/ \E r \in ServerResponses : RequestResponse(r)
  \/ \E st \in ServerStatuses, streaming \in BOOLEAN, total \in 0..MaxChunks :
        DownloadResponse(st, streaming, total)
  \/ DownloadWake
  \/ StreamChunk
  \/ StreamFinish
  \/ StreamWriteError
  \/ StreamReadError
  \/ \E ok \in BOOLEAN : BufferSettles(ok)
  \/ \E ok \in BOOLEAN : WriteCallback(ok)
  \/ EndCallback
  \/ FileClose

ServerSpec == ServerInit /\ [][ServerNext]_vars

---------------------------------------------------------------------------
(* Two stock_photo invocations in one process (downloadMode 'auto')        *)
(*                                                                         *)
(* Both handlers run on the module's unsplashClient and attributionManager *)
(* and interleave at their awaits.  Each frame is that of the download     *)
(* loop; an awaited downloadPhoto is represented by its settling (its      *)
(* steps are the actions of downloadPhoto above; the rate-limit fields it  *)
(* writes are read by no step of the loop or of the ledger), and the code  *)
(* between two awaits runs as one step.                                    *)

Invocations == {1, 2}

\* The selected photos of an invocation: consecutive results of a search, as
\* indices of SelectedPhotos, at most MaxPhotos of them
Selections ==
  { SubSeq(<<1, 2, 3>>, a, b) :
      a \in 1..Len(SelectedPhotos),
      b \in 1..Len(SelectedPhotos) } \ {<<>>}

\* Frame of one invocation's loop: where it is suspended, selectedPhotos, i
\* (from 1), the photo ids whose downloadPhoto has resolved.
InvocationIdle == [phase |-> "idle", photos |-> <<>>, i |-> 0, downloaded |-> {}]

ConcurrentInit ==
  /\ ClientUnused
  /\ disk \in ServerFiles
  /\ db = [i \in Instances |->
             IF i = 1 THEN LoadDatabase(disk, TRUE) ELSE Unconstructed]
  /\ ledgerOut = NoOutcome
  /\ ledgerLog = [EmptyLedgerLog EXCEPT !.initialFile = FileShape(disk)]
  /\ srv = [v \in Invocations |-> InvocationIdle]

\* Invocation v reaches the loop and awaits downloadPhoto for its first
\* photo.
InvocationStart(v, photos) ==
  /\ srv[v].phase = "idle"
  /\ Len(photos) <= MaxPhotos
  /\ srv' = [srv EXCEPT ![v] = [@ EXCEPT !.phase = "downloading",
                                         !.photos = photos, !.i = 1]]
  /\ UNCHANGED <<clientVars, ledgerVars>>

\* await downloadPhoto(...) of invocation v settles.  Rejected: the catch
\* block.  Resolved: addAttribution(photo, filePath) on the shared manager,
\* then addAttributionMetadata is awaited.
InvocationDownloadSettles(v, resolved, result) ==
  /\ srv[v].phase = "downloading"
  /\ LET photo == SelectedPhotos[srv[v].photos[srv[v].i]] IN
       IF ~resolved
         THEN /\ result = "written"
              /\ srv' = [srv EXCEPT ![v] = [@ EXCEPT !.phase = "failed"]]
              /\ UNCHANGED ledgerVars
       ELSE /\ DoAddAttribution(photo, ServerFilePath, now, result)
            /\ srv' = [srv EXCEPT ![v] =
                 [@ EXCEPT !.phase = IF HasAttributions(db[1])
                                       THEN "metadata" ELSE "failed",
                           !.downloaded = @ \cup {photo.id}]]
  /\ UNCHANGED clientVars

\* addAttributionMetadata of invocation v settles: i++, the next
\* downloadPhoto is awaited or execute returns.
InvocationMetadataSettles(v) ==
  /\ srv[v].phase = "metadata"
  /\ srv' = [srv EXCEPT ![v] =
       IF @.i + 1 <= Len(@.photos)
         THEN [@ EXCEPT !.phase = "downloading", !.i = @ + 1]
       ELSE [@ EXCEPT !.phase = "returned"]]
  /\ UNCHANGED <<clientVars, ledgerVars>>

ConcurrentNext ==
  \/ \E v \in Invocations, photos \in Selections : InvocationStart(v, photos)
  \/ \E v \in Invocations, resolved \in BOOLEAN, result \in ServerSaveResults :
        InvocationDownloadSettles(v, resolved, result)
  \/ \E v \in Invocations : InvocationMetadataSettles(v)

ConcurrentSpec == ConcurrentInit /\ [][ConcurrentNext]_vars

---------------------------------------------------------------------------
(* Claims                                                                  *)

ValidatedOps == {"searchPhotos", "getPhotoById"}

TrackResults == {"{success:true}", "{success:false}"}

\* C1 (as stated): for searchPhotos and getPhotoById, an answer that is a
\* client error (not ok, not 429, not 5xx) ends the call at once: exactly 1
\* fetch, no further fetch, and the error raised carries the status.
C1_ClientErrorEndsCall ==
  (op \in ValidatedOps /\ reqLog.sawClient) =>
    /\ pc = "done"
    /\ reqLog.fetches = 1
    /\ outcome.kind = "threw"
    /\ outcome.error.type = "UnsplashApiError"
    /\ outcome.error.status = reqLog.prevStatus

\* C2 (as stated): for searchPhotos and getPhotoById, an ok response whose
\* body fails the schema ends the call at once with the validation error,
\* after exactly 1 fetch.
C2_InvalidBodyEndsCall ==
  (op \in ValidatedOps /\ reqLog.sawInvalid) =>
    /\ pc = "done"
    /\ reqLog.fetches = 1
    /\ outcome = Threw(InvalidDataError)

\* C3 (as stated): when every answer of a searchPhotos, getPhotoById or
\* downloadPhoto call is a 5xx, the call makes exactly 4 HTTP fetches in all
\* and then raises an error.
C3_FourFetchesInAll ==
  /\ (op \in ValidatedOps /\ pc = "done" /\ reqLog.allServer) =>
       (reqLog.fetches = 4 /\ outcome.kind = "threw")
  /\ (op = "downloadPhoto" /\ pc = "done" /\ dlLog.fetches >= 1
        /\ dlLog.allServer /\ dlLog.trackAllServer) =>
       (dlLog.trackFetches + dlLog.fetches = 4 /\ outcome.kind = "threw")

\* C3 (amended): when every answer to a searchPhotos or getPhotoById call is a
\* 5xx, the call makes exactly 4 fetches and raises the error of the last
\* answer; when every answer to the image fetch of a downloadPhoto call is a
\* 5xx, the call makes exactly 4 image fetches (after the up to 4 fetches of
\* its tracking request, which has its own loop) and raises the error of the
\* last answer.  No loop ever makes a 5th fetch.
C3_FourFetchesPerLoop ==
  /\ reqLog.fetches <= 4
  /\ dlLog.fetches <= 4
  /\ dlLog.trackFetches <= 4
  /\ (op \in ValidatedOps /\ pc = "done" /\ reqLog.allServer) =>
       /\ reqLog.fetches = 4
       /\ outcome.kind = "threw"
       /\ outcome.error = ApiError(reqLog.prevStatus)
  /\ (op = "downloadPhoto" /\ pc = "done" /\ dlLog.fetches >= 1 /\ dlLog.allServer) =>
       /\ dlLog.fetches = 4
       /\ outcome.kind = "threw"
       /\ outcome.error.type = "DownloadFailed"
       /\ outcome.error.status >= 500

C3_Witness ==
  /\ op = "downloadPhoto"
  /\ pc = "done"
  /\ dlLog.allServer
  /\ dlLog.trackAllServer
  /\ dlLog.fetches = 4
  /\ dlLog.trackFetches = 4
  /\ outcome.kind = "threw"

\* C4 (as stated): a 429 answer does not use up the retry budget: a request()
\* call that is answered 429 is always retried, so no call ends on a 429.
C4_RateLimitAlwaysRetried ==
  (op \in RequestOps /\ pc = "done") => reqLog.prevStatus # 429

C6_RaisesAnError ==
  (op \in ValidatedOps /\ pc = "done" /\ outcome.kind = "threw") =>
    outcome.error # NullError

\* C7: trackDownload never throws: it returns {success: true} exactly when
\* its request() call returned, and {success: false} when request() threw
\* (whatever it threw).
C7_TrackDownloadNeverThrows ==
  (op = "trackDownload" /\ pc = "done") =>
    /\ outcome.kind = "returned"
    /\ outcome.value \in TrackResults
    /\ (outcome.value = "{success:true}" <=> reqLog.ended = "returned")
    /\ (outcome.value = "{success:false}" <=> reqLog.ended = "threw")

C7_Witness ==
  /\ op = "trackDownload"
  /\ pc = "done"
  /\ reqLog.ended = "threw"
  /\ reqLog.all429
  /\ outcome = Returned("{success:false}")

\* C8: in a downloadPhoto call no image fetch is issued before the tracking
\* request has completed (trackDownload has returned, no tracking fetch or
\* sleep is pending), and once tracking has returned, with success or not,
\* the image fetch is issued.
C8_TrackingBeforeImageFetch ==
  /\ dlLog.fetches >= 1 =>
       /\ op = "downloadPhoto"
       /\ download.tracked \in TrackResults
       /\ dlLog.trackFetches >= 1
       /\ pc \notin {"dl_ensureDir", "req_fetch", "req_sleep"}
  /\ (op = "downloadPhoto" /\ pc \in {"dl_ensureDir", "req_fetch", "req_sleep"}) =>
       dlLog.fetches = 0
  /\ (op = "downloadPhoto" /\ download.tracked \in TrackResults) =>
       dlLog.fetches >= 1

C8_Witness ==
  /\ op = "downloadPhoto"
  /\ pc = "dl_fetch"
  /\ download.tracked = "{success:false}"
  /\ dlLog.fetches = 1

\* C9 (as stated): in downloadPhoto an answer of the image URL that is a
\* client error (not ok, not 429, not 5xx) ends the call at once: exactly 1
\* image fetch, no sleep, the call fails.
C9_DownloadClientErrorEndsCall ==
  (op = "downloadPhoto" /\ dlLog.sawClient) =>
    /\ pc = "done"
    /\ dlLog.fetches = 1
    /\ dlLog.sleeps = 0
    /\ outcome.kind = "threw"

\* C10 (as stated): downloadPhoto resolves only after the file has received
\* every chunk of the response and its write stream is flushed and closed;
\* an attempt whose write failed is not reported as success.
C10_ResolvedAfterClose ==
  (op = "downloadPhoto" /\ outcome.kind = "returned") =>
    /\ fileStream.written = fileStream.total
    /\ fileStream.state = "closed"

\* C10 (amended): downloadPhoto resolves only after the file has received every
\* chunk of the response and its write stream has finished (end() has been
\* called and all data is flushed: 'finish'), on both paths; the stream's file
\* descriptor is closed after that, possibly after the promise has resolved.
\* An attempt whose write failed is not reported as success: the call sleeps
\* and retries, or fails.
C10_ResolvedAfterFinish ==
  /\ (op = "downloadPhoto" /\ outcome.kind = "returned") =>
       /\ pc = "done"
       /\ fileStream.written = fileStream.total
       /\ fileStream.state \in {"finished", "closed"}
  /\ fileStream.state = "errored" =>
       /\ outcome.kind # "returned"
       /\ pc \in {"dl_sleep", "dl_fetch", "done"}
       /\ (pc = "done" => outcome.kind = "threw")

C10_Witness ==
  /\ op = "downloadPhoto"
  /\ outcome = Returned("filePath")
  /\ fileStream.total >= 1
  /\ fileStream.written = fileStream.total
  /\ fileStream.state = "finished"
  /\ download.lastError = WriteError

\* C11 (as stated): after every response the stored remaining quota equals
\* the value of that response's X-Ratelimit-Remaining header and the stored
\* reset time is the time of that response plus one hour.
C11_StoredEqualsLastHeader ==
  lastResponse.received =>
    /\ rateLimitRemaining = ParseInt(lastResponse.remaining)
    /\ rateLimitResetTime = lastResponse.at + RATE_LIMIT_WINDOW

\* C11 (amended): the stored remaining quota is the parsed header of the most
\* recent response that carried a non-empty X-Ratelimit-Remaining header, and
\* the initial 50 while no response carried one; the stored reset time is the
\* time of the most recent response plus one hour, and 0 before the first
\* response.  Network failures and the fetches of the image change neither.
C11_StoredFollowsLastCarriedHeader ==
  /\ rateLimitRemaining =
       IF lastResponse.carried = NoHeader THEN INITIAL_RATE_LIMIT_REMAINING
       ELSE ParseInt(lastResponse.carried)
  /\ rateLimitResetTime =
       IF lastResponse.received THEN lastResponse.at + RATE_LIMIT_WINDOW ELSE 0

C11_Witness ==
  /\ lastResponse.received
  /\ lastResponse.remaining = NoHeader
  /\ lastResponse.carried = <<"4", "9">>
  /\ rateLimitRemaining = 49
  /\ lastResponse.at > 0
  /\ rateLimitResetTime = lastResponse.at + RATE_LIMIT_WINDOW

\* C12 (as stated): every value searchPhotos or getPhotoById returns
\* satisfies the schema of the operation, whatever the 2xx response was.
C12_ReturnedValueHasShape ==
  (op \in ValidatedOps /\ pc = "done" /\ outcome.kind = "returned") =>
    SafeParse(op, Json(outcome.value))

\* C12 (amended): a value searchPhotos or getPhotoById returns for a response
\* that has content satisfies the schema of the operation; for a response
\* without content (204 or content-length 0) the call returns the empty
\* object {}, which satisfies neither schema and is not checked.
C12_ReturnedValueHasShapeOrIsEmpty ==
  (op \in ValidatedOps /\ pc = "done" /\ outcome.kind = "returned") =>
    /\ reqLog.prevStatus \in {200, 204}
    /\ IF reqLog.prevNoContent
         THEN /\ outcome.value = "emptyObject"
              /\ ~SafeParse(op, Json(outcome.value))
         ELSE SafeParse(op, Json(outcome.value))

C12_Witness ==
  /\ op = "searchPhotos" /\ pc = "done"
  /\ reqLog.sawInvalid /\ reqLog.fetches = 3
  /\ ~reqLog.prevNoContent
  /\ outcome = Returned("search1")

HasNonNegativeSize(photo) ==
  /\ IsInt(photo.width) /\ photo.width.twice >= 0
  /\ IsInt(photo.height) /\ photo.height.twice >= 0

\* C18: every photo that searchPhotos or getPhotoById returns from a response
\* with content has a non-negative integer width and height; a body with a
\* negative width or height is rejected.
C18_NonNegativeSize ==
  (op \in ValidatedOps /\ pc = "done" /\ outcome.kind = "returned"
     /\ ~reqLog.prevNoContent) =>
    LET data == Json(outcome.value) IN
      IF op = "getPhotoById" THEN HasNonNegativeSize(data)
      ELSE \A i \in 1..Len(data.results.items) :
             HasNonNegativeSize(data.results.items[i])

\* C13: getAttribution(photo.id) after addAttribution(photo, path) returns a
\* record whose photographer is photo.user.name for every non-null name, the
\* empty string included, and photo.user.username only when name is null.
C13_PhotographerIsNameUnlessNull ==
  (/\ ledgerLog.lastOp = "getAttribution"
   /\ ledgerLog.instance = 1
   /\ ledgerLog.photo.id = ledgerLog.photoId
   /\ ledgerLog.added[ledgerLog.photoId] # <<>>) =>
    /\ ledgerOut.kind = "returned"
    /\ ledgerOut.value.photographer =
         IF ledgerLog.photo.name # NullName THEN ledgerLog.photo.name
         ELSE ledgerLog.photo.username

SomePhotoIds == PhotoIds \cup {"p4"}

UnusableFiles == {"absent", "unparsable", "null", "array", "object"}

\* C15: whatever the file holds (absent, unparsable, or JSON of another
\* shape: null, [], {}), no operation of the ledger raises, and before the
\* first addAttribution getAllAttributions returns the empty sequence and
\* getAttribution returns null.
C15_UnusableFileIsEmptyDatabase ==
  (ledgerLog.initialFile \in UnusableFiles /\ ledgerLog.instance = 1) =>
    /\ ledgerOut.kind # "threw"
    /\ (ledgerLog.adds = 0 /\ ledgerLog.lastOp = "getAllAttributions") =>
         ledgerOut.value = <<>>
    /\ (ledgerLog.adds = 0 /\ ledgerLog.lastOp = "getAttribution") =>
         ledgerOut.value = Null

\* C16: an addAttribution whose save fails returns the new record without
\* raising; the record is in the in-memory mapping (getAttribution and
\* getAllAttributions expose it from then on) and the file does not hold the
\* in-memory database.
C16_SaveFailureKeepsMemory ==
  /\ (ledgerLog.lastOp = "addAttribution" /\ ledgerLog.lastSaveFailed) =>
       /\ ledgerOut = Returned(ledgerLog.added[ledgerLog.photoId][1])
       /\ disk # JsonFile(Stringify(db[1]))
  /\ (ledgerLog.saveFailed /\ ledgerLog.instance = 1) =>
       /\ ledgerLog.lastOp = "getAttribution"
            /\ ledgerLog.added[ledgerLog.photoId] # <<>> =>
              ledgerOut = Returned(ledgerLog.added[ledgerLog.photoId][1])
       /\ ledgerLog.lastOp = "getAllAttributions" =>
            /\ ledgerOut.kind = "returned"
            /\ \A id \in PhotoIds :
                 ledgerLog.added[id] # <<>> =>
                   \E i \in 1..Len(ledgerOut.value) :
                      ledgerOut.value[i] = ledgerLog.added[id][1]

C16_Witness ==
  /\ ledgerLog.lastOp = "getAllAttributions" /\ ledgerLog.instance = 1
  /\ ledgerLog.adds = 2 /\ ledgerLog.lastSaveFailed
  /\ disk = AbsentFile
  /\ Len(ledgerOut.value) = 2
  /\ ledgerOut.value[2] = ledgerLog.added["p2"][1]

\* C17: the ledger holds at most one record per photo id, the one the most
\* recent addAttribution for that id built (its file path and download
\* date); adding another id does not change it, and adding an id that is
\* present does not change the number of records.
C17_LastWriteWins ==
  HasAttributions(db[1]) =>
    /\ \A id \in PhotoIds :
         /\ Cardinality({i \in 1..Len(db[1].attributions) :
                           db[1].attributions[i].id = id}) <= 1
         /\ ledgerLog.added[id] # <<>> =>
              \E i \in 1..Len(db[1].attributions) :
                 db[1].attributions[i] = ledgerLog.added[id][1]
    /\ (ledgerLog.lastOp = "addAttribution") =>
         /\ Len(db[1].attributions) =
              ledgerLog.sizeBefore + (IF ledgerLog.wasPresent THEN 0 ELSE 1)
         /\ ledgerLog.added[ledgerLog.photoId][1].downloadDate = now

C17_Witness ==
  /\ ledgerLog.lastOp = "addAttribution" /\ ledgerLog.adds = 2
  /\ ledgerLog.wasPresent /\ ledgerLog.photoId = "p1"
  /\ ledgerLog.added["p2"] # <<>>
  /\ Len(db[1].attributions) = 2
  /\ db[1].attributions[1] = ledgerLog.added["p1"][1]
  /\ db[1].attributions[1].projectPath = <<"/", "a", "/", "A">>
  /\ db[1].attributions[1].downloadDate = 2
  /\ db[1].attributions[2] = ledgerLog.added["p2"][1]
  /\ ledgerLog.initialFile = "database"

\* s begins with the characters of prefix
BeginsWith(s, prefix) ==
  Len(prefix) <= Len(s) /\ \A i \in 1..Len(prefix) : s[i] = prefix[i]

\* C19: getAttributionsForProject(prefix) returns exactly the stored
\* attributions whose stored directory textually starts with prefix, each
\* once.
C19_ProjectFilter ==
  (/\ ledgerLog.lastOp = "getAttributionsForProject"
   /\ HasAttributions(db[ledgerLog.instance])) =>
    LET stored == db[ledgerLog.instance].attributions IN
      /\ ledgerOut.kind = "returned"
      /\ {ledgerOut.value[i] : i \in 1..Len(ledgerOut.value)} =
           {stored[i] : i \in {j \in 1..Len(stored) :
               BeginsWith(stored[j].projectPath, ledgerLog.projectPath)}}
      /\ Cardinality({ledgerOut.value[i] : i \in 1..Len(ledgerOut.value)}) =
           Len(ledgerOut.value)

C19_Witness ==
  /\ ledgerLog.lastOp = "getAttributionsForProject"
  /\ ledgerLog.instance = 1
  /\ ledgerLog.projectPath = <<"/", "a", "/", "A">>
  /\ Len(db[1].attributions) = 2
  /\ db[1].attributions[1].projectPath = <<"/", "a", "/", "A">>
  /\ db[1].attributions[2].projectPath = <<"/", "a", "/", "B">>
  /\ ledgerOut = Returned(<<db[1].attributions[1]>>)

\* C20: within one download request the photos are processed one at a time:
\* no network or disk operation for photo k + 1 (ensureDir, tracking request,
\* image fetch, file write) begins before downloadPhoto has resolved for
\* photo k, addAttribution has returned for it and its metadata step has
\* completed; every operation of the client in progress belongs to the photo
\* started last, and no metadata step runs beside a download.
C20_OnePhotoAtATime ==
  /\ \A k \in 2..Len(SelectedPhotos) :
       k \in srv.started =>
         /\ (k - 1) \in srv.resolved
         /\ (k - 1) \in srv.attributed
         /\ srv.metadata[k - 1] = "done"
  /\ pc \notin {"idle", "done"} =>
       \/ srv.phase = "searching" /\ srv.started = {}
       \/ srv.phase = "downloading" /\ srv.started = 1..srv.i
  /\ \A k \in 1..Len(SelectedPhotos) :
       srv.metadata[k] = "running" =>
         /\ srv.phase = "metadata" /\ srv.i = k
         /\ pc = "done" /\ outcome.kind = "returned"
         /\ ledgerLog.adds = k

C20_Witness ==
  /\ srv.count = 2 /\ srv.i = 2
  /\ srv.phase = "downloading" /\ pc = "dl_write"
  /\ srv.started = {1, 2} /\ srv.resolved = {1} /\ srv.attributed = {1}
  /\ srv.metadata[1] = "done"
  /\ ledgerLog.adds = 1
  /\ download.tracked = "{success:false}"

\* C27: whatever the upstream answers (2xx, 429, 4xx, 5xx, invalid body,
\* network error, in any order), one searchPhotos, getPhotoById or
\* trackDownload call issues at most MAX_RETRIES + 1 = 4 fetches; after the
\* 4th answer no fetch is outstanding or scheduled beyond the one sleep that
\* precedes the end of the call; the call ends by returning or by throwing;
\* and 429 answers use up the same bound: a call answered 429 only ends after
\* exactly 4 fetches, request() throwing.
C27_AtMostFourFetches ==
  op \in RequestOps =>
    /\ reqLog.fetches <= MAX_RETRIES + 1
    /\ reqLog.fetches = request.attempt + 1 \/ pc = "done"
    /\ pc = "done" =>
         /\ outcome.kind \in {"returned", "threw"}
         /\ reqLog.ended \in {"returned", "threw"}
         /\ reqLog.fetches >= 1
         /\ reqLog.all429 => (reqLog.fetches = MAX_RETRIES + 1 /\ reqLog.ended = "threw")

C27_Witness ==
  /\ op = "searchPhotos"
  /\ pc = "done"
  /\ reqLog.all429
  /\ reqLog.fetches = 4
  /\ reqLog.ended = "threw"
  /\ outcome.kind = "threw"

C26_Delay(i) == IF i = 0 THEN 1000 ELSE IF i = 1 THEN 2000 ELSE 4000

\* The last answer of the request() loop was a 5xx response or a network
\* error with code ECONNRESET.
C26_LastAnswerIsTransient ==
  \/ reqLog.prevStatus >= 500
  \/ /\ reqLog.prevStatus = 0
     /\ reqLog.fetches >= 1
     /\ request.lastError.code = "ECONNRESET"

\* C26: when attempt i (0-based, i < 3) of a request() call is answered by a
\* 5xx or fails with ECONNRESET, the client sleeps 1000, 2000, 4000 ms for
\* i = 0, 1, 2: while the sleep lasts no fetch has been issued since the
\* answer, the timer is set to the answer's time plus the delay, and attempt
\* i + 1 is issued exactly when the timer fires, never before.  (After
\* attempt 3 there is no sleep: the call ends.)
C26_BackoffBeforeRetry ==
  (pc \in {"req_fetch", "req_sleep"} /\ C26_LastAnswerIsTransient) =>
    /\ pc = "req_sleep" =>
         /\ request.attempt < 3
         /\ reqLog.fetches = request.attempt + 1
         /\ reqLog.issuedAt <= reqLog.prevAt
         /\ now = reqLog.prevAt
         /\ request.wakeAt = reqLog.prevAt + C26_Delay(request.attempt)
    /\ pc = "req_fetch" =>
         /\ request.attempt >= 1
         /\ reqLog.fetches = request.attempt + 1
         /\ reqLog.issuedAt = reqLog.prevAt + C26_Delay(request.attempt - 1)
         /\ now = reqLog.issuedAt

C26_Witness ==
  /\ op = "getPhotoById"
  /\ pc = "req_fetch"
  /\ request.attempt = 3
  /\ reqLog.prevStatus = 0
  /\ request.lastError = NetworkError("ECONNRESET")
  /\ reqLog.issuedAt = reqLog.prevAt + 4000
  /\ reqLog.prevAt >= 3000

\* The attributions the file holds, as loadDatabase would parse them.
C25_OnDisk == Parse(disk.text).attributions

\* C25: with one instance in use, after every addAttribution whose write
\* succeeded the file holds the complete in-memory database: its text is the
\* text of this.db, and every attribution added so far (the most recent one
\* per photo id), those of calls whose own writes failed included, is in the
\* file.
C25_SaveWritesWholeDatabase ==
  (/\ ledgerLog.lastOp = "addAttribution"
   /\ ledgerOut.kind = "returned"
   /\ ~ledgerLog.lastSaveFailed) =>
     /\ disk = JsonFile(Stringify(db[1]))
     /\ Len(C25_OnDisk) = Len(db[1].attributions)
     /\ \A id \in PhotoIds :
          ledgerLog.added[id] # <<>> =>
            \E i \in 1..Len(C25_OnDisk) : C25_OnDisk[i] = ledgerLog.added[id][1]

C25_Witness ==
  /\ ledgerLog.lastOp = "addAttribution"
  /\ ledgerOut.kind = "returned"
  /\ ledgerLog.adds = 2
  /\ ledgerLog.saveFailed
  /\ ~ledgerLog.lastSaveFailed
  /\ ledgerLog.added["p1"] # <<>>
  /\ ledgerLog.added["p2"] # <<>>
  /\ ledgerLog.photoId = "p2"
  /\ disk.kind = "json"
  /\ \E i \in 1..Len(C25_OnDisk) : C25_OnDisk[i] = ledgerLog.added["p1"][1]

\* C28 (as stated): a downloadPhoto call always settles: while its promise
\* is neither resolved nor rejected some step of the call is still to come
\* (a settling of fetch, a timer, a stream event or a callback), so the call
\* is never left pending with nothing more to be delivered, a body stream
\* whose read fails in the middle of the transfer included.
C28_DownloadSettles ==
  (op = "downloadPhoto" /\ pc # "done" /\ outcome = NoOutcome) => ENABLED Next

\* The attribution of photo k of the request is in the sequence.
C21_Holds(attributions, k) ==
  \E n \in 1..Len(attributions) : attributions[n].id = SelectedPhotos[k].id

C22_NoResultsIsNotAFailure ==
  (srv.phase \in {"returned", "failed"} /\ srv.total = 0) =>
    ~(/\ srv.result.kind = "threw"
      /\ srv.result.error.type = "UserError"
      /\ srv.result.error.message = "Failed to process stock photo request")

\* C24: in an auto-mode request addAttribution is called for a photo only
\* once downloadPhoto has resolved for that photo: the calls are as many as
\* the resolved downloads, the ledger holds an entry for a photo of the
\* request only if its download resolved, and a photo whose download
\* rejected, or that was never started, has none.
C24_AttributedOnlyAfterDownload ==
  /\ srv.attributed \subseteq srv.resolved
  /\ srv.resolved \subseteq srv.started
  /\ ledgerLog.adds = Cardinality(srv.resolved)
  /\ \A k \in 1..Len(SelectedPhotos) :
       (\/ ledgerLog.added[SelectedPhotos[k].id] # <<>>
        \/ C21_Holds(db[1].attributions, k)
        \/ C21_Holds(Parse(disk.text).attributions, k)) =>
         k \in srv.resolved
  /\ (srv.phase = "downloading" /\ pc = "done" /\ outcome.kind = "threw") =>
       srv.i \notin srv.resolved
  /\ (srv.phase = "failed" /\ op = "downloadPhoto" /\ outcome.kind = "threw") =>
       /\ srv.i \notin srv.resolved
       /\ ledgerLog.added[SelectedPhotos[srv.i].id] = <<>>

C24_Witness ==
  /\ srv.phase = "failed"
  /\ srv.mode = "auto"
  /\ srv.count = 2 /\ srv.i = 1
  /\ op = "downloadPhoto" /\ outcome.kind = "threw"
  /\ dlLog.fetches = 4
  /\ srv.started = {1} /\ srv.resolved = {}
  /\ ledgerLog.adds = 0
  /\ db[1] = EmptyDatabase
  /\ disk = AbsentFile

\* C29: a stock_photo request in urls_only mode calls searchPhotos once and
\* makes no other call of the client (no trackDownload, no downloadPhoto),
\* makes no directory and opens no file, and leaves the ledger as it was, in
\* memory and on disk.
C29_UrlsOnlyOnlySearches ==
  srv.mode = "urls_only" =>
    /\ srv.searches = 1
    /\ op = "searchPhotos"
    /\ srv.started = {}
    /\ srv.mkdirs = 0
    /\ pc \in {"req_fetch", "req_sleep", "done"}
    /\ download = IdleDownload /\ dlLog = EmptyDlLog
    /\ fileStream = NoFile
    /\ ledgerLog.adds = 0
    /\ ledgerOut = NoOutcome
    /\ disk \in ServerFiles /\ FileShape(disk) = ledgerLog.initialFile
    /\ db[1] = LoadDatabase(disk, TRUE)
    /\ srv.phase \in {"searching", "returned", "failed"}

C29_Witness ==
  /\ srv.mode = "urls_only"
  /\ srv.phase = "returned"
  /\ srv.result = Returned("urls_only")
  /\ srv.requested = 2 /\ srv.count = 2
  /\ srv.searches = 1
  /\ reqLog.fetches = 2

\* The photo id has an entry in the sequence of attributions.
C23_Has(attributions, id) ==
  \E n \in 1..Len(attributions) : attributions[n].id = id

\* C23: when two writers on the same directory have both saved, the file
\* holds exactly the database of the writer whose save was the last one, with
\* no merge: an attribution that only the other writer knows is not in the
\* file.
C23_LaterWriteWins ==
  (/\ ledgerLog.lastOp = "addAttribution"
   /\ ~ledgerLog.lastSaveFailed
   /\ ledgerLog.saved = Instances) =>
     LET last == ledgerLog.instance
         first == 3 - ledgerLog.instance
     IN /\ disk = JsonFile(Stringify(db[last]))
        /\ Parse(disk.text) = db[last]
        /\ \A id \in PhotoIds :
             (C23_Has(db[first].attributions, id)
                /\ ~C23_Has(db[last].attributions, id)) =>
               ~C23_Has(Parse(disk.text).attributions, id)

C23_Witness ==
  /\ ledgerLog.lastOp = "addAttribution"
  /\ ~ledgerLog.saveFailed
  /\ ledgerLog.saved = Instances
  /\ ledgerLog.instance = 2
  /\ ledgerLog.adds = 2
  /\ C23_Has(db[1].attributions, "p1")
  /\ ~C23_Has(db[2].attributions, "p1")
  /\ ~C23_Has(Parse(disk.text).attributions, "p1")
  /\ C23_Has(Parse(disk.text).attributions, "p2")

\* The photo ids whose download resolved in one of the two invocations
C30_Downloaded == UNION { srv[v].downloaded : v \in Invocations }

\* Both invocations have returned, having interleaved: each one downloaded
\* a photo.
C30_BothReturned ==
  \A v \in Invocations : srv[v].phase = "returned" /\ srv[v].downloaded # {}

\* C30 (as stated): after two concurrent auto-mode invocations have both
\* returned, the ledger in memory and the database file each hold an
\* attribution for every photo id either invocation downloaded.
C30_NoAttributionLost ==
  C30_BothReturned =>
    \A id \in C30_Downloaded :
      /\ C23_Has(db[1].attributions, id)
      /\ C23_Has(Parse(disk.text).attributions, id)

\* C30 (amended): after two concurrent auto-mode invocations have both
\* returned, the ledger in memory holds an attribution for every photo id
\* either invocation downloaded, and so does the database file whenever the
\* most recent save succeeded (the file is then the text of the database in
\* memory).
C30_NoAttributionLostInMemory ==
  C30_BothReturned =>
    /\ \A id \in C30_Downloaded : C23_Has(db[1].attributions, id)
    /\ ~ledgerLog.lastSaveFailed =>
         /\ disk = JsonFile(Stringify(db[1]))
         /\ \A id \in C30_Downloaded :
              C23_Has(Parse(disk.text).attributions, id)

C30_Witness ==
  /\ C30_BothReturned
  /\ srv[1].downloaded = {"p1", "p2"}
  /\ srv[2].downloaded = {"p2", "p3"}
  /\ ledgerLog.saveFailed
  /\ ~ledgerLog.lastSaveFailed
  /\ ledgerLog.photoId = "p2"
  /\ Len(Parse(disk.text).attributions) = 3

===========================================================================
